---- MODULE Spec2Model ----
(***************************************************************************)
(* The Discord client of go-github-discord-bridge                          *)
(* (internal/discord/client.go): tag reconciliation (GetOrCreateRepoTag)   *)
(* and the thread lifecycle (CreateThread, PostMessage, ArchiveThread),    *)
(* run by concurrent callers against the remote forum channel.             *)
(*                                                                         *)
(* Ids are strings as in the source; "" is Go's zero value, which is what  *)
(* json.Unmarshal leaves in a field the body does not give.                *)
(***************************************************************************)
EXTENDS Naturals, Sequences, FiniteSets, TLC

\* Bound: the total number of calls the callers make in one behaviour.
MaxCalls == 4

\* The goroutines that share one Client, and the repository names they ask for.
Procs == {"p1", "p2"}
Names == {"repoA", "repoB"}

\* http.StatusOK, http.StatusCreated as the source compares them.
StatusOK == 200
StatusCreated == 201

\* NewClient(token, forumChannelID): immutable after construction.
Client == [token |-> "tok", forumChannelID |-> "forum"]

DiscordAPIBase == "https://discord.com/api/v10"

-----------------------------------------------------------------------------
(* Wire data.                                                              *)

\* ForumTag{ID, Name}
ForumTag(id, name) == [ID |-> id, Name |-> name]

\* json.Marshal of a ForumTag, as the object written on the wire: the struct
\* tags are `json:"id"` and `json:"name"`, neither with omitempty, so both
\* keys are always written, an empty ID as "id": "".
MarshalTag(tag) == [id |-> tag.ID, name |-> tag.Name, has_id |-> TRUE]

MarshalTags(tags) == [i \in DOMAIN tags |-> MarshalTag(tags[i])]

\* A raw response body: either not valid JSON, or a JSON object of which the
\* client reads available_tags (channel) or id (thread).
Body(valid, tags, id) == [valid |-> valid, available_tags |-> tags, id |-> id]
EmptyBody == Body(TRUE, <<>>, "")
ErrorBody == Body(TRUE, <<>>, "error")
GarbageBody == Body(FALSE, <<>>, "")

\* What httpClient.Do gives back: err != nil (transport), or a response.
Response(transport, status, body) ==
    [transport |-> transport, StatusCode |-> status, body |-> body]
TransportError == Response(TRUE, 0, EmptyBody)

\* json.Unmarshal(body, &channel): fails on invalid JSON, otherwise copies the
\* available_tags entries field by field.
Unmarshal(body) ==
    [err |-> ~body.valid,
     AvailableTags |-> IF body.valid THEN body.available_tags ELSE <<>>,
     ID |-> IF body.valid THEN body.id ELSE ""]

\* The error values the client returns: the message of fmt.Errorf, with the
\* status code and raw body where the format string carries them.
Err(msg, status, body) == [msg |-> msg, status |-> status, body |-> body]
Nil == Err("nil", 0, EmptyBody)

\* (string, error)
Return2(id, err) == [id |-> id, err |-> err]

\* A request as built by http.NewRequest plus the Header.Set calls.
Request(method, url, auth, ctype, body) ==
    [method |-> method, url |-> url, Authorization |-> auth,
     ContentType |-> ctype, body |-> body]

\* Request bodies (json.Marshal of PatchBody, CreateThreadRequest,
\* ThreadMessage, ArchiveThreadRequest).
ReqBody(kind, tags, archived) ==
    [kind |-> kind, available_tags |-> tags, archived |-> archived]
NoReqBody == ReqBody("none", <<>>, FALSE)

-----------------------------------------------------------------------------
(* GetOrCreateRepoTag, as pure steps between its two round trips.          *)

\* for _, tag := range tags { if tag.Name == repoName { return tag.ID } }
RECURSIVE ScanFrom(_, _, _)
ScanFrom(tags, repoName, i) ==
    IF i > Len(tags) THEN [found |-> FALSE, ID |-> ""]
    ELSE IF tags[i].Name = repoName THEN [found |-> TRUE, ID |-> tags[i].ID]
    ELSE ScanFrom(tags, repoName, i + 1)

Scan(tags, repoName) == ScanFrom(tags, repoName, 1)

ChannelURL == DiscordAPIBase \o "/channels/" \o Client.forumChannelID

\* http.NewRequest("GET", url, nil) and the Authorization header.
GetRequest ==
    Request("GET", ChannelURL, "Bot " \o Client.token, "", NoReqBody)

\* Variant: the new entry is given an id by the client (its name).
NewTags_ClientId(tags, repoName) == Append(tags, ForumTag(repoName, repoName))

\* Variant: the update carries the new entry alone.
NewTags_OnlyNew(tags, repoName) == <<ForumTag("", repoName)>>

\* newTags := append(channel.AvailableTags, ForumTag{Name: repoName})
NewTags(tags, repoName) == Append(tags, ForumTag("", repoName))

\* Variant: the Authorization header is set on the GET only.
PatchRequest_NoAuth(tags, repoName) ==
    Request("PATCH", ChannelURL, "", "application/json",
            ReqBody("tags", MarshalTags(NewTags(tags, repoName)), FALSE))

\* http.NewRequest("PATCH", url, patchData) and its two headers.
PatchRequest(tags, repoName) ==
    Request("PATCH", ChannelURL, "Bot " \o Client.token, "application/json",
            ReqBody("tags", MarshalTags(NewTags(tags, repoName)), FALSE))

\* Variant: the scan's early return is missing; the update is always sent.
AfterGet_NoScan(repoName, resp) ==
    IF resp.transport
    THEN [next |-> "done", tags |-> <<>>,
          ret |-> Return2("", Err("failed to get channel", 0, EmptyBody))]
    ELSE IF resp.StatusCode # StatusOK
    THEN [next |-> "done", tags |-> <<>>,
          ret |-> Return2("", Err("discord API error", resp.StatusCode, resp.body))]
    ELSE IF Unmarshal(resp.body).err
    THEN [next |-> "done", tags |-> <<>>,
          ret |-> Return2("", Err("failed to parse channel", 0, EmptyBody))]
    ELSE [next |-> "patch", tags |-> Unmarshal(resp.body).AvailableTags,
          ret |-> Return2("", Nil)]

\* Variant: the scan returns tag.Name where the source returns tag.ID.
AfterGet_ReturnsName(repoName, resp) ==
    IF resp.transport
    THEN [next |-> "done", tags |-> <<>>,
          ret |-> Return2("", Err("failed to get channel", 0, EmptyBody))]
    ELSE IF resp.StatusCode # StatusOK
    THEN [next |-> "done", tags |-> <<>>,
          ret |-> Return2("", Err("discord API error", resp.StatusCode, resp.body))]
    ELSE IF Unmarshal(resp.body).err
    THEN [next |-> "done", tags |-> <<>>,
          ret |-> Return2("", Err("failed to parse channel", 0, EmptyBody))]
    ELSE LET tags == Unmarshal(resp.body).AvailableTags
             hit == Scan(tags, repoName)
         IN IF hit.found
            THEN [next |-> "done", tags |-> tags, ret |-> Return2(repoName, Nil)]
            ELSE [next |-> "patch", tags |-> tags, ret |-> Return2("", Nil)]

\* Variant: the status of the fetch is not looked at.
AfterGet_IgnoresStatus(repoName, resp) ==
    IF resp.transport
    THEN [next |-> "done", tags |-> <<>>,
          ret |-> Return2("", Err("failed to get channel", 0, EmptyBody))]
    ELSE IF Unmarshal(resp.body).err
    THEN [next |-> "done", tags |-> <<>>,
          ret |-> Return2("", Err("failed to parse channel", 0, EmptyBody))]
    ELSE LET tags == Unmarshal(resp.body).AvailableTags
             hit == Scan(tags, repoName)
         IN IF hit.found
            THEN [next |-> "done", tags |-> tags, ret |-> Return2(hit.ID, Nil)]
            ELSE [next |-> "patch", tags |-> tags, ret |-> Return2("", Nil)]

\* Variant: the error of json.Unmarshal is dropped; an undecodable channel
\* is taken for one without tags.
AfterGet_IgnoresParseError(repoName, resp) ==
    IF resp.transport
    THEN [next |-> "done", tags |-> <<>>,
          ret |-> Return2("", Err("failed to get channel", 0, EmptyBody))]
    ELSE IF resp.StatusCode # StatusOK
    THEN [next |-> "done", tags |-> <<>>,
          ret |-> Return2("", Err("discord API error", resp.StatusCode, resp.body))]
    ELSE LET tags == Unmarshal(resp.body).AvailableTags
             hit == Scan(tags, repoName)
         IN IF hit.found
            THEN [next |-> "done", tags |-> tags, ret |-> Return2(hit.ID, Nil)]
            ELSE [next |-> "patch", tags |-> tags, ret |-> Return2("", Nil)]

\* Lines 96-117: the outcome of the fetch. next = "patch" when the tag is
\* absent and the update is to be sent.
AfterGet(repoName, resp) ==
    IF resp.transport
    THEN [next |-> "done", tags |-> <<>>,
          ret |-> Return2("", Err("failed to get channel", 0, EmptyBody))]
    ELSE IF resp.StatusCode # StatusOK
    THEN [next |-> "done", tags |-> <<>>,
          ret |-> Return2("", Err("discord API error", resp.StatusCode, resp.body))]
    ELSE IF Unmarshal(resp.body).err
    THEN [next |-> "done", tags |-> <<>>,
          ret |-> Return2("", Err("failed to parse channel", 0, EmptyBody))]
    ELSE LET tags == Unmarshal(resp.body).AvailableTags
             hit == Scan(tags, repoName)
         IN IF hit.found
            THEN [next |-> "done", tags |-> tags, ret |-> Return2(hit.ID, Nil)]
            ELSE [next |-> "patch", tags |-> tags, ret |-> Return2("", Nil)]

\* Variant: the update is held to the status of a creation (201).
AfterPatch_ExpectsCreated(repoName, resp) ==
    IF resp.transport
    THEN Return2("", Err("failed to patch channel", 0, EmptyBody))
    ELSE IF resp.StatusCode # StatusCreated
    THEN Return2("", Err("discord API error on patch", resp.StatusCode, resp.body))
    ELSE IF Unmarshal(resp.body).err
    THEN Return2("", Err("failed to parse updated channel", 0, EmptyBody))
    ELSE LET hit == Scan(Unmarshal(resp.body).AvailableTags, repoName)
         IN IF hit.found
            THEN Return2(hit.ID, Nil)
            ELSE Return2("", Err("tag created but not found in response", 0, EmptyBody))

\* Variant: the final error is missing; an absent tag yields ("", nil).
AfterPatch_SilentEmpty(repoName, resp) ==
    IF resp.transport
    THEN Return2("", Err("failed to patch channel", 0, EmptyBody))
    ELSE IF resp.StatusCode # StatusOK
    THEN Return2("", Err("discord API error on patch", resp.StatusCode, resp.body))
    ELSE IF Unmarshal(resp.body).err
    THEN Return2("", Err("failed to parse updated channel", 0, EmptyBody))
    ELSE Return2(Scan(Unmarshal(resp.body).AvailableTags, repoName).ID, Nil)

\* Lines 137-160: the outcome of the update.
AfterPatch(repoName, resp) ==
    IF resp.transport
    THEN Return2("", Err("failed to patch channel", 0, EmptyBody))
    ELSE IF resp.StatusCode # StatusOK
    THEN Return2("", Err("discord API error on patch", resp.StatusCode, resp.body))
    ELSE IF Unmarshal(resp.body).err
    THEN Return2("", Err("failed to parse updated channel", 0, EmptyBody))
    ELSE LET hit == Scan(Unmarshal(resp.body).AvailableTags, repoName)
         IN IF hit.found
            THEN Return2(hit.ID, Nil)
            ELSE Return2("", Err("tag created but not found in response", 0, EmptyBody))

-----------------------------------------------------------------------------
(* The thread lifecycle, as pure steps around the single round trip.       *)

ThreadsURL == ChannelURL \o "/threads"
MessagesURL(threadID) == DiscordAPIBase \o "/channels/" \o threadID \o "/messages"
ThreadURL(threadID) == DiscordAPIBase \o "/channels/" \o threadID

\* Lines 165-184: POST of CreateThreadRequest{Name, Message, AppliedTags}.
CreateThreadRequest ==
    Request("POST", ThreadsURL, "Bot " \o Client.token, "application/json",
            ReqBody("thread", <<>>, FALSE))

\* Lines 208-221: POST of the ThreadMessage.
PostMessageRequest(threadID) ==
    Request("POST", MessagesURL(threadID), "Bot " \o Client.token,
            "application/json", ReqBody("message", <<>>, FALSE))

\* Variant: the request carries archived: false.
ArchiveThreadRequest_Unarchive(threadID) ==
    Request("PATCH", ThreadURL(threadID), "Bot " \o Client.token,
            "application/json", ReqBody("archive", <<>>, FALSE))

\* Lines 244-261: PATCH of ArchiveThreadRequest{Archived: true}.
ArchiveThreadRequest(threadID) ==
    Request("PATCH", ThreadURL(threadID), "Bot " \o Client.token,
            "application/json", ReqBody("archive", <<>>, TRUE))

\* Variant: 200 is taken for success as well, as PostMessage does.
AfterCreate_Accepts200(resp) ==
    IF resp.transport
    THEN Return2("", Err("failed to send request", 0, EmptyBody))
    ELSE IF resp.StatusCode # StatusOK /\ resp.StatusCode # StatusCreated
    THEN Return2("", Err("discord API error", resp.StatusCode, resp.body))
    ELSE IF Unmarshal(resp.body).err
    THEN Return2("", Err("failed to parse response", 0, EmptyBody))
    ELSE Return2(Unmarshal(resp.body).ID, Nil)

\* Variant: the creation is held to 200 where the remote answers 201.
AfterCreate_Expects200(resp) ==
    IF resp.transport
    THEN Return2("", Err("failed to send request", 0, EmptyBody))
    ELSE IF resp.StatusCode # StatusOK
    THEN Return2("", Err("discord API error", resp.StatusCode, resp.body))
    ELSE IF Unmarshal(resp.body).err
    THEN Return2("", Err("failed to parse response", 0, EmptyBody))
    ELSE Return2(Unmarshal(resp.body).ID, Nil)

\* Variant: the body is decoded before the status is looked at.
AfterCreate_DecodesFirst(resp) ==
    IF resp.transport
    THEN Return2("", Err("failed to send request", 0, EmptyBody))
    ELSE IF Unmarshal(resp.body).err
    THEN Return2("", Err("failed to parse response", 0, EmptyBody))
    ELSE IF resp.StatusCode # StatusCreated
    THEN Return2("", Err("discord API error", resp.StatusCode, resp.body))
    ELSE Return2(Unmarshal(resp.body).ID, Nil)

\* Lines 186-203.
AfterCreate(resp) ==
    IF resp.transport
    THEN Return2("", Err("failed to send request", 0, EmptyBody))
    ELSE IF resp.StatusCode # StatusCreated
    THEN Return2("", Err("discord API error", resp.StatusCode, resp.body))
    ELSE IF Unmarshal(resp.body).err
    THEN Return2("", Err("failed to parse response", 0, EmptyBody))
    ELSE Return2(Unmarshal(resp.body).ID, Nil)

\* Variant: the success body is decoded, as CreateThread does.
AfterPost_Decodes(resp) ==
    IF resp.transport
    THEN Return2("", Err("failed to send request", 0, EmptyBody))
    ELSE IF resp.StatusCode # StatusOK /\ resp.StatusCode # StatusCreated
    THEN Return2("", Err("discord API error", resp.StatusCode, resp.body))
    ELSE IF Unmarshal(resp.body).err
    THEN Return2("", Err("failed to parse response", 0, EmptyBody))
    ELSE Return2("", Nil)

\* Lines 223-234.
AfterPost(resp) ==
    IF resp.transport
    THEN Return2("", Err("failed to send request", 0, EmptyBody))
    ELSE IF resp.StatusCode # StatusOK /\ resp.StatusCode # StatusCreated
    THEN Return2("", Err("discord API error", resp.StatusCode, resp.body))
    ELSE Return2("", Nil)

\* Variant: 201 is taken for success as well, as PostMessage does.
AfterArchive_Accepts201(resp) ==
    IF resp.transport
    THEN Return2("", Err("failed to send request", 0, EmptyBody))
    ELSE IF resp.StatusCode # StatusOK /\ resp.StatusCode # StatusCreated
    THEN Return2("", Err("discord API error", resp.StatusCode, resp.body))
    ELSE Return2("", Nil)

\* Lines 263-274.
AfterArchive(resp) ==
    IF resp.transport
    THEN Return2("", Err("failed to send request", 0, EmptyBody))
    ELSE IF resp.StatusCode # StatusOK
    THEN Return2("", Err("discord API error", resp.StatusCode, resp.body))
    ELSE Return2("", Nil)

-----------------------------------------------------------------------------
(* State.                                                                  *)

VARIABLES
    catalog,    \* remote: the forum channel's available_tags
    nextId,     \* remote: the next id it assigns
    threads,    \* remote: the threads of the forum channel
    pc,         \* per goroutine: where its current call stands
    op,         \* per goroutine: the operation it is in
    arg,        \* per goroutine: repoName or threadID of the call
    channel,    \* per goroutine: channel.AvailableTags as fetched
    sent,       \* per goroutine: the requests this call has sent, in order
    rcvd,       \* per goroutine: the responses this call has received
    ret,        \* per goroutine: what the call returns
    changed,    \* history, per goroutine: the remote applied a request of this call
    had,        \* history, per goroutine: the catalog held repoName when the call began
    solo,       \* history, per goroutine: no other tag call has overlapped this one
    requested,  \* history: the repository names asked for so far
    failed,     \* history: some GetOrCreateRepoTag call has returned an error
    healed,     \* history: per name, the id the first successful non-overlapping call returned
    issued,     \* history: per name, the updates sent for it so far
    dropped,    \* history: some update was sent and not applied by the remote
    locking,    \* the callers' discipline around GetOrCreateRepoTag
    ncalls      \* calls started so far

remote == <<catalog, nextId, threads>>
history == <<requested, failed, healed, issued, dropped>>

vars == <<catalog, nextId, threads, pc, op, arg, channel, sent, rcvd, ret,
          changed, had, solo, requested, failed, healed, issued, dropped,
          locking, ncalls>>

Init ==
    /\ catalog \in {<<>>, <<ForumTag("1", "repoA")>>}
    /\ nextId = 2
    /\ threads = <<>>
    /\ pc = [p \in Procs |-> "idle"]
    /\ op = [p \in Procs |-> ""]
    /\ arg = [p \in Procs |-> ""]
    /\ channel = [p \in Procs |-> <<>>]
    /\ sent = [p \in Procs |-> <<>>]
    /\ rcvd = [p \in Procs |-> <<>>]
    /\ ret = [p \in Procs |-> Return2("", Nil)]
    /\ changed = [p \in Procs |-> FALSE]
    /\ had = [p \in Procs |-> FALSE]
    /\ solo = [p \in Procs |-> FALSE]
    /\ requested = {}
    /\ failed = FALSE
    /\ healed = [n \in Names |-> ""]
    /\ issued = [n \in Names |-> 0]
    /\ dropped = FALSE
    /\ locking \in {"none", "repo", "channel"}
    /\ ncalls = 0

\* A goroutine is inside GetOrCreateRepoTag: between its call and its return.
InCall(p) == pc[p] \in {"get", "patch"}

-----------------------------------------------------------------------------
(* The remote forum channel.                                               *)

\* An entry of the list sent that names no existing tag: its id key is
\* missing or empty.
IsNew(entry) == ~entry.has_id \/ entry.id = ""

\* The update replaces the catalog by the list sent; an entry without an id
\* is given the next fresh one.
RECURSIVE AssignIds(_, _)
AssignIds(tags, n) ==
    IF tags = <<>> THEN <<>>
    ELSE IF IsNew(Head(tags))
         THEN <<ForumTag(ToString(n), Head(tags).name)>> \o AssignIds(Tail(tags), n + 1)
         ELSE <<ForumTag(Head(tags).id, Head(tags).name)>> \o AssignIds(Tail(tags), n)

RECURSIVE CountNew(_)
CountNew(tags) ==
    IF tags = <<>> THEN 0
    ELSE (IF IsNew(Head(tags)) THEN 1 ELSE 0) + CountNew(Tail(tags))

\* The statuses with which the remote refuses a request.
RejectStatuses == {403}

\* What the remote did with one request: whether it applied it, its state
\* afterwards, and what the client got back.
Outcome(applied, cat, n, thr, resp) ==
    [applied |-> applied, catalog |-> cat, nextId |-> n, threads |-> thr,
     resp |-> resp]

\* A request that is lost or refused changes nothing.
NotApplied ==
    {Outcome(FALSE, catalog, nextId, threads, TransportError)}
    \cup {Outcome(FALSE, catalog, nextId, threads, Response(FALSE, s, ErrorBody)) :
            s \in RejectStatuses}

\* GET /channels/{id}: unreachable, refused, or the channel resource.
RemoteGet ==
    {TransportError}
    \cup {Response(FALSE, s, ErrorBody) : s \in RejectStatuses}
    \cup {Response(FALSE, StatusOK, Body(TRUE, catalog, Client.forumChannelID))}

\* PATCH /channels/{id} with available_tags: lost or refused, or applied; an
\* applied update answers 200 with the channel resource, unless the answer
\* is lost (the client's timeout).
RemotePatch(tags) ==
    LET cat == AssignIds(tags, nextId)
        n == nextId + CountNew(tags)
    IN  NotApplied
        \cup {Outcome(TRUE, cat, n, threads, TransportError),
              Outcome(TRUE, cat, n, threads,
                      Response(FALSE, StatusOK, Body(TRUE, cat, Client.forumChannelID)))}

\* A thread of the forum channel.
Thread(id, archived, messages) ==
    [id |-> id, archived |-> archived, messages |-> messages]

ThreadIDs == {threads[i].id : i \in DOMAIN threads}

\* POST /channels/{id}/threads: an applied creation answers 201 with the thread.
RemoteCreate ==
    LET id == ToString(nextId)
        thr == Append(threads, Thread(id, FALSE, 1))
    IN  NotApplied
        \cup {Outcome(TRUE, catalog, nextId + 1, thr, TransportError),
              Outcome(TRUE, catalog, nextId + 1, thr,
                      Response(FALSE, StatusCreated, Body(TRUE, <<>>, id)))}

\* POST /channels/{threadID}/messages: an applied post answers 200 or 201.
RemotePost(threadID) ==
    LET thr == [i \in DOMAIN threads |->
                   IF threads[i].id = threadID
                   THEN Thread(threadID, threads[i].archived, threads[i].messages + 1)
                   ELSE threads[i]]
    IN  NotApplied
        \cup {Outcome(TRUE, catalog, nextId, thr, TransportError)}
        \cup {Outcome(TRUE, catalog, nextId, thr, Response(FALSE, s, Body(TRUE, <<>>, "msg"))) :
                s \in {StatusOK, StatusCreated}}

\* PATCH /channels/{threadID} with archived: an applied update answers 200.
RemoteArchive(threadID, archived) ==
    LET thr == [i \in DOMAIN threads |->
                   IF threads[i].id = threadID
                   THEN Thread(threadID, archived, threads[i].messages)
                   ELSE threads[i]]
    IN  NotApplied
        \cup {Outcome(TRUE, catalog, nextId, thr, TransportError),
              Outcome(TRUE, catalog, nextId, thr,
                      Response(FALSE, StatusOK, Body(TRUE, <<>>, threadID)))}

-----------------------------------------------------------------------------
(* A mock remote, as a test double: it answers any request with any        *)
(* response of a bounded set and keeps no state.                           *)

MockStatuses == {200, 201, 204, 403}
MockTags == {ForumTag(id, name) : id \in {"", "42"}, name \in Names}
MockTagLists ==
    {<<>>} \cup {<<t>> : t \in MockTags} \cup {<<t, u>> : t \in MockTags, u \in MockTags}

MockChannelResponses ==
    {TransportError}
    \cup {Response(FALSE, s, GarbageBody) : s \in MockStatuses}
    \cup {Response(FALSE, s, Body(TRUE, tags, "forum")) : s \in MockStatuses, tags \in MockTagLists}

MockThreadResponses ==
    {TransportError}
    \cup {Response(FALSE, s, b) :
            s \in MockStatuses, b \in {GarbageBody, EmptyBody, Body(TRUE, <<>>, "999")}}

MockOutcomes(responses) ==
    {Outcome(FALSE, catalog, nextId, threads, resp) : resp \in responses}

-----------------------------------------------------------------------------
(* Actions.                                                                *)

\* The callers' discipline: no lock, a lock per repository name, or one lock
\* for the channel, held from the call of GetOrCreateRepoTag to its return.
RepoMutexFree(p, repoName) ==
    \A q \in Procs \ {p} : ~(InCall(q) /\ arg[q] = repoName)

ChannelMutexFree(p) == \A q \in Procs \ {p} : ~InCall(q)

LockFree(p, repoName) ==
    CASE locking = "repo" -> RepoMutexFree(p, repoName)
      [] locking = "channel" -> ChannelMutexFree(p)
      [] OTHER -> TRUE

\* What every call sets up for the goroutine that makes it.
Begin(p, operation, a) ==
    /\ pc[p] = "idle"
    /\ ncalls < MaxCalls
    /\ ncalls' = ncalls + 1
    /\ op' = [op EXCEPT ![p] = operation]
    /\ arg' = [arg EXCEPT ![p] = a]
    /\ UNCHANGED locking

\* Lines 86-94: the call starts and builds its GET.
GetOrCreateRepoTag(p, repoName) ==
    /\ LockFree(p, repoName)
    /\ Begin(p, "GetOrCreateRepoTag", repoName)
    /\ pc' = [pc EXCEPT ![p] = "get"]
    /\ channel' = [channel EXCEPT ![p] = <<>>]
    /\ sent' = [sent EXCEPT ![p] = <<>>]
    /\ rcvd' = [rcvd EXCEPT ![p] = <<>>]
    /\ ret' = [ret EXCEPT ![p] = Return2("", Nil)]
    /\ changed' = [changed EXCEPT ![p] = FALSE]
    /\ had' = [had EXCEPT ![p] = Scan(catalog, repoName).found]
    /\ solo' = [q \in Procs |->
                  IF q = p THEN \A r \in Procs \ {p} : ~InCall(r)
                  ELSE IF InCall(q) THEN FALSE ELSE solo[q]]
    /\ requested' = requested \cup {repoName}
    /\ UNCHANGED <<remote, failed, healed, issued, dropped>>

\* Lines 96-128: the fetch round trip, the scan, and the building of the update.
Fetch(p, resp) ==
    /\ pc[p] = "get"
    /\ LET r == AfterGet(arg[p], resp)
       IN /\ pc' = [pc EXCEPT ![p] = r.next]
          /\ channel' = [channel EXCEPT ![p] = r.tags]
          /\ ret' = [ret EXCEPT ![p] = r.ret]
          /\ failed' = (failed \/ r.ret.err # Nil)
          /\ healed' = IF r.next = "done" /\ r.ret.err = Nil /\ solo[p] /\ healed[arg[p]] = ""
                       THEN [healed EXCEPT ![arg[p]] = r.ret.id]
                       ELSE healed
    /\ sent' = [sent EXCEPT ![p] = Append(@, GetRequest)]
    /\ rcvd' = [rcvd EXCEPT ![p] = Append(@, resp)]
    /\ UNCHANGED <<remote, op, arg, changed, had, solo, requested, issued, dropped,
                   locking, ncalls>>

\* Lines 130-160: the update round trip and the re-scan of its response.
Patch(p, out) ==
    /\ pc[p] = "patch"
    /\ catalog' = out.catalog
    /\ nextId' = out.nextId
    /\ changed' = [changed EXCEPT ![p] = out.applied]
    /\ pc' = [pc EXCEPT ![p] = "done"]
    /\ ret' = [ret EXCEPT ![p] = AfterPatch(arg[p], out.resp)]
    /\ failed' = (failed \/ AfterPatch(arg[p], out.resp).err # Nil)
    /\ healed' = IF /\ AfterPatch(arg[p], out.resp).err = Nil
                    /\ solo[p] /\ healed[arg[p]] = ""
                 THEN [healed EXCEPT ![arg[p]] = AfterPatch(arg[p], out.resp).id]
                 ELSE healed
    /\ issued' = [issued EXCEPT ![arg[p]] = @ + 1]
    /\ dropped' = (dropped \/ ~out.applied)
    /\ sent' = [sent EXCEPT ![p] = Append(@, PatchRequest(channel[p], arg[p]))]
    /\ rcvd' = [rcvd EXCEPT ![p] = Append(@, out.resp)]
    /\ UNCHANGED <<threads, op, arg, channel, had, solo, requested, locking, ncalls>>

\* A thread operation: one request, one response, and the return. Building
\* the request (json.Marshal, http.NewRequest) does not fail for the values
\* of this model: structs of strings, and URLs made of the base and an id.
RoundTrip(p, operation, a, req, out, result) ==
    /\ Begin(p, operation, a)
    /\ catalog' = out.catalog
    /\ nextId' = out.nextId
    /\ threads' = out.threads
    /\ changed' = [changed EXCEPT ![p] = out.applied]
    /\ pc' = [pc EXCEPT ![p] = "done"]
    /\ channel' = [channel EXCEPT ![p] = <<>>]
    /\ sent' = [sent EXCEPT ![p] = <<req>>]
    /\ rcvd' = [rcvd EXCEPT ![p] = <<out.resp>>]
    /\ ret' = [ret EXCEPT ![p] = result]
    /\ UNCHANGED <<had, solo, history>>

\* Lines 164-204.
CreateThread(p, out) ==
    RoundTrip(p, "CreateThread", "", CreateThreadRequest, out, AfterCreate(out.resp))

\* Lines 207-235.
PostMessage(p, threadID, out) ==
    RoundTrip(p, "PostMessage", threadID, PostMessageRequest(threadID), out,
              AfterPost(out.resp))

\* Lines 243-275.
ArchiveThread(p, threadID, out) ==
    RoundTrip(p, "ArchiveThread", threadID, ArchiveThreadRequest(threadID), out,
              AfterArchive(out.resp))

\* The call has returned; the goroutine is free for its next call.
Finish(p) ==
    /\ pc[p] = "done"
    /\ pc' = [pc EXCEPT ![p] = "idle"]
    /\ op' = [op EXCEPT ![p] = ""]
    /\ arg' = [arg EXCEPT ![p] = ""]
    /\ channel' = [channel EXCEPT ![p] = <<>>]
    /\ sent' = [sent EXCEPT ![p] = <<>>]
    /\ rcvd' = [rcvd EXCEPT ![p] = <<>>]
    /\ ret' = [ret EXCEPT ![p] = Return2("", Nil)]
    /\ changed' = [changed EXCEPT ![p] = FALSE]
    /\ had' = [had EXCEPT ![p] = FALSE]
    /\ solo' = [solo EXCEPT ![p] = FALSE]
    /\ UNCHANGED <<remote, history, locking, ncalls>>

-----------------------------------------------------------------------------
(* Concurrent callers against the remote forum channel.                    *)

Next ==
    \E p \in Procs :
        \/ \E repoName \in Names : GetOrCreateRepoTag(p, repoName)
        \/ \E resp \in RemoteGet : Fetch(p, resp)
        \/ \E out \in RemotePatch(PatchRequest(channel[p], arg[p]).body.available_tags) : Patch(p, out)
        \/ \E out \in RemoteCreate : CreateThread(p, out)
        \/ \E t \in ThreadIDs : \E out \in RemotePost(t) : PostMessage(p, t, out)
        \/ \E t \in ThreadIDs :
              \E out \in RemoteArchive(t, ArchiveThreadRequest(t).body.archived) :
                  ArchiveThread(p, t, out)
        \/ Finish(p)

Spec == Init /\ [][Next]_vars

(* One caller against the mock.                                            *)

InitMock == Init /\ catalog = <<>> /\ locking = "none"

NextMock ==
    \E p \in {"p1"} :
        \/ \E repoName \in Names : GetOrCreateRepoTag(p, repoName)
        \/ \E resp \in MockChannelResponses : Fetch(p, resp)
        \/ \E out \in MockOutcomes(MockChannelResponses) : Patch(p, out)
        \/ \E out \in MockOutcomes(MockThreadResponses) : CreateThread(p, out)
        \/ \E out \in MockOutcomes(MockThreadResponses) : PostMessage(p, "999", out)
        \/ \E out \in MockOutcomes(MockThreadResponses) : ArchiveThread(p, "999", out)
        \/ Finish(p)

SpecMock == InitMock /\ [][NextMock]_vars

-----------------------------------------------------------------------------
(* Vocabulary of the properties.                                           *)

Range(seq) == {seq[i] : i \in DOMAIN seq}

\* How many tags of the list carry the name.
Count(tags, name) == Cardinality({i \in DOMAIN tags : tags[i].Name = name})

NameIn(tags, name) == \E i \in DOMAIN tags : tags[i].Name = name

\* The id the list gives for the name: that of its first entry so named.
FirstNamed(tags, name) ==
    LET I == {i \in DOMAIN tags : tags[i].Name = name}
    IN  tags[CHOOSE i \in I : \A j \in I : i <= j].ID

IdIn(tags, id) == \E i \in DOMAIN tags : tags[i].ID = id

\* The goroutine's call of the operation has returned.
Done(p, operation) == pc[p] = "done" /\ op[p] = operation

Methods(p) == [i \in DOMAIN sent[p] |-> sent[p][i].method]

\* The response is a 200 whose body decodes.
Good200(resp) == ~resp.transport /\ resp.StatusCode = 200 /\ resp.body.valid

\* The call's fetch answered 200 with a list that lacks / holds repoName.
FetchedAbsent(p) ==
    /\ Len(rcvd[p]) >= 1
    /\ Good200(rcvd[p][1])
    /\ ~NameIn(rcvd[p][1].body.available_tags, arg[p])

FetchedPresent(p) ==
    /\ Len(rcvd[p]) >= 1
    /\ Good200(rcvd[p][1])
    /\ NameIn(rcvd[p][1].body.available_tags, arg[p])

-----------------------------------------------------------------------------
\* C1: a returned GetOrCreateRepoTag call whose fetch answered 200 with a
\* list that lacks repoName has sent exactly one GET followed by exactly one
\* PATCH; and if the PATCH answered 200 with a list that names repoName, the
\* call returns, without error, the id that list gives for repoName.
C1_AbsentOneFetchOneUpdate ==
    \A p \in Procs :
        (Done(p, "GetOrCreateRepoTag") /\ FetchedAbsent(p)) =>
            /\ Methods(p) = <<"GET", "PATCH">>
            /\ Len(rcvd[p]) = 2
            /\ (Good200(rcvd[p][2]) /\ NameIn(rcvd[p][2].body.available_tags, arg[p])) =>
                  ret[p] = Return2(FirstNamed(rcvd[p][2].body.available_tags, arg[p]), Nil)

\* The scenario of the specification: fetch [], update answers
\* [{id: "42", name: "repoB"}], the call returns "42".
C1_Witness ==
    /\ Done("p1", "GetOrCreateRepoTag")
    /\ arg["p1"] = "repoB"
    /\ Len(rcvd["p1"]) = 2
    /\ rcvd["p1"][1] = Response(FALSE, 200, Body(TRUE, <<>>, "forum"))
    /\ rcvd["p1"][2] = Response(FALSE, 200, Body(TRUE, <<ForumTag("42", "repoB")>>, "forum"))
    /\ ret["p1"] = Return2("42", Nil)

\* C2: a returned GetOrCreateRepoTag call whose fetch answered 200 with a
\* list that holds repoName has sent exactly one GET and no PATCH, returns
\* the id of the fetched tag of that name without error, and has changed
\* nothing at the remote.
C2_PresentOneFetchNoUpdate ==
    \A p \in Procs :
        (Done(p, "GetOrCreateRepoTag") /\ FetchedPresent(p)) =>
            /\ Methods(p) = <<"GET">>
            /\ ret[p] = Return2(FirstNamed(rcvd[p][1].body.available_tags, arg[p]), Nil)
            /\ ~changed[p]

\* The scenario of the specification: the catalog holds {id "1", repoA} and
\* the call for repoA returns "1".
C2_Witness ==
    /\ Done("p1", "GetOrCreateRepoTag")
    /\ arg["p1"] = "repoA"
    /\ rcvd["p1"][1].body.available_tags = <<ForumTag("1", "repoA")>>
    /\ ret["p1"] = Return2("1", Nil)
    /\ Len(sent["p1"]) = 1

\* C3: if the update answered 200 with a decodable list that has no tag
\* named repoName, the call returns the empty id and the "tag created but
\* not found" error, whatever other tags the list holds.
C3_TagCreatedButNotFound ==
    \A p \in Procs :
        (/\ Done(p, "GetOrCreateRepoTag")
         /\ Len(rcvd[p]) = 2
         /\ Good200(rcvd[p][2])
         /\ ~NameIn(rcvd[p][2].body.available_tags, arg[p])) =>
            ret[p] = Return2("", Err("tag created but not found in response", 0, EmptyBody))

\* The update response lists another repository's tag only.
C3_Witness ==
    /\ Done("p1", "GetOrCreateRepoTag")
    /\ arg["p1"] = "repoB"
    /\ Len(rcvd["p1"]) = 2
    /\ Good200(rcvd["p1"][2])
    /\ rcvd["p1"][2].body.available_tags = <<ForumTag("42", "repoA")>>
    /\ ret["p1"].err.msg = "tag created but not found in response"

\* C4: the client does not serialize its calls. When two calls for the same
\* repository name have both returned an id, each after an update of its own
\* was applied, both fetched a list without that name and both sent an update
\* that appends it; the two ids differ, and the catalog holds two tags of
\* that name or no longer holds one of the two ids.
RaceCompleted(p, q) ==
    /\ p # q
    /\ Done(p, "GetOrCreateRepoTag") /\ Done(q, "GetOrCreateRepoTag")
    /\ arg[p] = arg[q]
    /\ changed[p] /\ changed[q]
    /\ ret[p].err = Nil /\ ret[q].err = Nil

C4_RaceDuplicatesOrOverwrites ==
    \A p \in Procs : \A q \in Procs :
        RaceCompleted(p, q) =>
            /\ ~NameIn(channel[p], arg[p]) /\ ~NameIn(channel[q], arg[q])
            /\ sent[p][2].body.available_tags =
                  MarshalTags(Append(channel[p], ForumTag("", arg[p])))
            /\ sent[q][2].body.available_tags =
                  MarshalTags(Append(channel[q], ForumTag("", arg[q])))
            /\ ret[p].id # ret[q].id
            /\ \/ Count(catalog, arg[p]) >= 2
               \/ ~IdIn(catalog, ret[p].id)
               \/ ~IdIn(catalog, ret[q].id)

\* Without any lock, both calls have returned and the id returned to p1 no
\* longer denotes a tag of the catalog.
C4_Witness ==
    /\ locking = "none"
    /\ RaceCompleted("p1", "p2")
    /\ ~IdIn(catalog, ret["p1"].id)
    /\ IdIn(catalog, ret["p2"].id)

\* C5 as stated: under a lock per repository name, once every call has
\* returned and none has failed, the catalog holds exactly one tag for every
\* name that was requested.
AllReturned == \A p \in Procs : ~InCall(p)

C5_PerRepoLockExactlyOne ==
    (locking = "repo" /\ AllReturned /\ ~failed) =>
        \A n \in requested : Count(catalog, n) = 1

\* C5, amended: under one lock for the channel, once every call has returned
\* and none has failed, the catalog holds exactly one tag for every name that
\* was requested.
C5_ChannelLockExactlyOne ==
    (locking = "channel" /\ AllReturned /\ ~failed) =>
        \A n \in requested : Count(catalog, n) = 1

\* Under the channel lock both names were requested, both calls succeeded,
\* and both tags are in the catalog.
C5_Witness ==
    /\ locking = "channel"
    /\ AllReturned /\ ~failed
    /\ requested = Names
    /\ \A n \in Names : Count(catalog, n) = 1
    /\ \E p \in Procs : Done(p, "GetOrCreateRepoTag") /\ changed[p]

\* C6 as stated: a tag that is in the catalog stays in it, with its id and
\* name, in every step of every execution.
C6_NeverDeleted ==
    [][\A t \in Range(catalog) : t \in Range(catalog')]_vars

\* C6, amended: the catalog changes only by the update of some call, and that
\* update keeps every tag (id and name) of the list that call fetched; what
\* it drops was added to the catalog after that fetch.
C6_UpdateKeepsFetchedTags ==
    [][catalog' # catalog =>
         \E p \in Procs :
            /\ pc[p] = "patch" /\ pc'[p] = "done"
            /\ \A t \in Range(channel[p]) : t \in Range(catalog')
            /\ \A t \in Range(catalog) \ Range(catalog') : t \notin Range(channel[p])]_vars

\* An applied update of a call that had fetched a non-empty list.
C6_Witness ==
    \E p \in Procs :
        /\ Done(p, "GetOrCreateRepoTag")
        /\ changed[p]
        /\ channel[p] # <<>>
        /\ \A t \in Range(channel[p]) : t \in Range(catalog)

\* C7 as stated: an operation that returns an error has changed nothing at
\* the remote.
C7_FailureChangesNothing ==
    \A p \in Procs : (pc[p] = "done" /\ ret[p].err # Nil) => ~changed[p]

\* C7, amended: an operation that returns a remote-API error (a status other
\* than the expected one) or an error of its fetch has changed nothing at the
\* remote; an error returned after an applied change is one of the response
\* to the mutating request (lost, undecodable, or without the tag).
RefusedOrFetchFailed(e) ==
    e.msg \in {"discord API error", "discord API error on patch",
               "failed to get channel", "failed to parse channel"}

AfterMutation(e) ==
    e.msg \in {"failed to patch channel", "failed to parse updated channel",
               "tag created but not found in response",
               "failed to send request", "failed to parse response"}

C7_RefusalChangesNothing ==
    \A p \in Procs :
        (pc[p] = "done" /\ ret[p].err # Nil) =>
            /\ RefusedOrFetchFailed(ret[p].err) => ~changed[p]
            /\ changed[p] => AfterMutation(ret[p].err)

\* A refused update: the call fails with the status and the catalog lacks
\* the tag it asked for.
C7_Witness ==
    \E p \in Procs :
        /\ Done(p, "GetOrCreateRepoTag")
        /\ ret[p].err = Err("discord API error on patch", 403, ErrorBody)
        /\ ~changed[p]
        /\ ~NameIn(catalog, arg[p])

\* C8: a call for a name that the catalog held when the call began, and that
\* no other call overlapped, sends no update; if it returns without error it
\* returns the id of a tag of that name which is in the catalog, and that id
\* is the one every earlier such call for the name returned.
C8_SelfHealing ==
    \A p \in Procs :
        (Done(p, "GetOrCreateRepoTag") /\ solo[p] /\ had[p]) =>
            /\ \A i \in DOMAIN sent[p] : sent[p][i].method # "PATCH"
            /\ ret[p].err = Nil =>
                  /\ \E i \in DOMAIN catalog :
                        catalog[i] = ForumTag(ret[p].id, arg[p])
                  /\ ret[p].id = healed[arg[p]]

\* After a race for repoB that both callers won (one tag survives), a later
\* call alone returns the id an earlier call alone returned, which is not the
\* id the race's loser was given.
C8_Witness ==
    \E p \in Procs :
        /\ locking = "none"
        /\ Done(p, "GetOrCreateRepoTag") /\ solo[p] /\ had[p]
        /\ arg[p] = "repoB"
        /\ ret[p] = Return2("3", Nil)
        /\ healed["repoB"] = "3"
        /\ catalog = <<ForumTag("3", "repoB")>>
        /\ ncalls = 4

\* C9: CreateThread returns the id of the response body exactly on status
\* 201; on every other status it returns no id and the remote-API error with
\* the status code and the raw body.
C9_CreateThreadOnly201 ==
    \A p \in Procs :
        (Done(p, "CreateThread") /\ ~rcvd[p][1].transport) =>
            LET resp == rcvd[p][1]
            IN  /\ resp.StatusCode # 201 =>
                      ret[p] = Return2("", Err("discord API error", resp.StatusCode, resp.body))
                /\ (resp.StatusCode = 201 /\ resp.body.valid) =>
                      ret[p] = Return2(resp.body.id, Nil)
                /\ ret[p].err = Nil => resp.StatusCode = 201

\* A 200 that carries a thread id is refused.
C9_Witness ==
    /\ Done("p1", "CreateThread")
    /\ rcvd["p1"][1] = Response(FALSE, 200, Body(TRUE, <<>>, "999"))
    /\ ret["p1"].id = ""
    /\ ret["p1"].err.status = 200

\* C10: PostMessage returns nil exactly on status 200 or 201, and the
\* remote-API error with status and raw body on every other status; it never
\* returns a decode error, whatever the body.
C10_PostMessage200Or201 ==
    \A p \in Procs :
        Done(p, "PostMessage") =>
            /\ ret[p].err.msg \in {"nil", "failed to send request", "discord API error"}
            /\ ~rcvd[p][1].transport =>
                  LET resp == rcvd[p][1]
                  IN  /\ ret[p].err = Nil <=> resp.StatusCode \in {200, 201}
                      /\ resp.StatusCode \notin {200, 201} =>
                            ret[p].err = Err("discord API error", resp.StatusCode, resp.body)

\* A 201 whose body is not JSON is a success.
C10_Witness ==
    /\ Done("p1", "PostMessage")
    /\ rcvd["p1"][1] = Response(FALSE, 201, GarbageBody)
    /\ ret["p1"].err = Nil

\* C11: ArchiveThread returns nil exactly on status 200; on every other
\* status, 201 included, it returns the remote-API error that carries the
\* status code and the raw body.
C11_ArchiveThreadOnly200 ==
    \A p \in Procs :
        (Done(p, "ArchiveThread") /\ ~rcvd[p][1].transport) =>
            LET resp == rcvd[p][1]
            IN  /\ ret[p].err = Nil <=> resp.StatusCode = 200
                /\ resp.StatusCode # 200 =>
                      ret[p] = Return2("", Err("discord API error", resp.StatusCode, resp.body))

\* A 201 is refused, and the error carries 201 and the body.
C11_Witness ==
    /\ Done("p1", "ArchiveThread")
    /\ rcvd["p1"][1] = Response(FALSE, 201, Body(TRUE, <<>>, "999"))
    /\ ret["p1"].err = Err("discord API error", 201, Body(TRUE, <<>>, "999"))

\* C12: no operation retries. A returned CreateThread, PostMessage or
\* ArchiveThread has sent exactly one request; GetOrCreateRepoTag has sent one
\* GET, then at most one PATCH; a request is sent only after every earlier
\* request of the call succeeded, and a call whose last request failed
\* (transport error or a status that is not the success status) returns the
\* error.
ThreadOps == {"CreateThread", "PostMessage", "ArchiveThread"}

SuccessStatuses(operation) ==
    CASE operation = "CreateThread" -> {201}
      [] operation = "PostMessage" -> {200, 201}
      [] OTHER -> {200}

RequestFailed(operation, resp) ==
    resp.transport \/ resp.StatusCode \notin SuccessStatuses(operation)

C13_ArchivingTerminal ==
    [][/\ \A i \in DOMAIN threads :
             threads[i].archived =>
                (i \in DOMAIN threads' /\ threads'[i].id = threads[i].id
                                       /\ threads'[i].archived)
       /\ \A p \in Procs : \A i \in DOMAIN sent'[p] :
             sent'[p][i].body.kind = "archive" =>
                (op'[p] = "ArchiveThread" /\ sent'[p][i].body.archived)]_vars

\* A message was posted to an archived thread, and the thread is still
\* archived.
C13_Witness ==
    \E p \in Procs : \E i \in DOMAIN threads :
        /\ Done(p, "PostMessage")
        /\ changed[p]
        /\ threads[i].id = arg[p]
        /\ threads[i].archived
        /\ threads[i].messages = 2

\* C14: every request of every operation carries Authorization: Bot <token>
\* with the token given to NewClient, and carries Content-Type:
\* application/json exactly when it has a body (the GET has none and carries
\* no Content-Type).
C14_Headers ==
    \A p \in Procs : \A i \in DOMAIN sent[p] :
        LET req == sent[p][i]
        IN  /\ req.Authorization = "Bot " \o Client.token
            /\ req.ContentType = "application/json" <=> req.body.kind # "none"
            /\ req.body.kind = "none" => req.ContentType = ""
            /\ req.method = "GET" <=> req.body.kind = "none"

\* A call that sent the GET and then the PATCH.
C14_Witness ==
    /\ Done("p1", "GetOrCreateRepoTag")
    /\ Len(sent["p1"]) = 2
    /\ sent["p1"][1].method = "GET" /\ sent["p1"][1].ContentType = ""
    /\ sent["p1"][2].method = "PATCH" /\ sent["p1"][2].ContentType = "application/json"
    /\ sent["p1"][2].Authorization = "Bot tok"

\* C15 as stated: the list sent in the update is the fetched list, every
\* entry with its id and name and in the fetched order, followed by exactly
\* one entry whose name is repoName and which has no id.
C15_AppendsEntryWithoutId ==
    \A p \in Procs :
        (Done(p, "GetOrCreateRepoTag") /\ Len(sent[p]) = 2) =>
            LET list == sent[p][2].body.available_tags
                n == Len(channel[p])
            IN  /\ Len(list) = n + 1
                /\ \A i \in 1..n :
                      /\ list[i].has_id
                      /\ list[i].id = channel[p][i].ID
                      /\ list[i].name = channel[p][i].Name
                /\ list[n + 1].name = arg[p]
                /\ ~list[n + 1].has_id

\* C16: when the fetch fails (transport error, a status other than 200, or a
\* 200 whose body is not valid JSON) the call returns an error and no id, has
\* sent the GET alone, and nothing of it was applied at the remote.
C16_FetchFailureStops ==
    \A p \in Procs :
        (/\ op[p] = "GetOrCreateRepoTag"
         /\ Len(rcvd[p]) >= 1
         /\ ~Good200(rcvd[p][1])) =>
            /\ pc[p] = "done"
            /\ Methods(p) = <<"GET">>
            /\ ret[p].id = ""
            /\ ret[p].err.msg =
                  (IF rcvd[p][1].transport THEN "failed to get channel"
                   ELSE IF rcvd[p][1].StatusCode # 200 THEN "discord API error"
                   ELSE "failed to parse channel")
            /\ ~changed[p]

\* A 200 whose body is not JSON.
C16_Witness ==
    /\ Done("p1", "GetOrCreateRepoTag")
    /\ rcvd["p1"] = <<Response(FALSE, 200, GarbageBody)>>
    /\ ret["p1"] = Return2("", Err("failed to parse channel", 0, EmptyBody))
    /\ Len(sent["p1"]) = 1

\* The response that decided a returned call, the status its round trip
\* expects, and the messages of the two error kinds.
Deciding(p) == rcvd[p][Len(rcvd[p])]

Expected(p) == IF op[p] = "CreateThread" THEN 201 ELSE 200

APIError(p) ==
    IF op[p] = "GetOrCreateRepoTag" /\ Len(rcvd[p]) = 2
    THEN "discord API error on patch"
    ELSE "discord API error"

DecodeErrors ==
    {"failed to parse channel", "failed to parse updated channel",
     "failed to parse response"}

\* C17: in both round trips of GetOrCreateRepoTag and in CreateThread, a
\* response with a status other than the expected one yields the API error
\* carrying that status and the raw body, valid JSON or not; a decode error is
\* returned only for a response of the expected status.
C17_StatusBeforeDecode ==
    \A p \in Procs :
        (/\ pc[p] = "done"
         /\ op[p] \in {"GetOrCreateRepoTag", "CreateThread"}
         /\ Len(rcvd[p]) >= 1) =>
            /\ (~Deciding(p).transport /\ Deciding(p).StatusCode # Expected(p)) =>
                  ret[p] = Return2("", Err(APIError(p), Deciding(p).StatusCode,
                                           Deciding(p).body))
            /\ ret[p].err.msg \in DecodeErrors =>
                  /\ ~Deciding(p).transport
                  /\ Deciding(p).StatusCode = Expected(p)
                  /\ Unmarshal(Deciding(p).body).err

\* A 403 whose body is not JSON, answered to CreateThread.
C17_Witness ==
    /\ Done("p1", "CreateThread")
    /\ rcvd["p1"] = <<Response(FALSE, 403, GarbageBody)>>
    /\ ret["p1"] = Return2("", Err("discord API error", 403, GarbageBody))

\* C18: GetOrCreateRepoTag never returns an empty id together with success,
\* whatever tag list the fetch or the update response carries.
C18_NoEmptyIdOnSuccess ==
    \A p \in Procs :
        (Done(p, "GetOrCreateRepoTag") /\ ret[p].err = Nil) => ret[p].id # ""

\* C19: when the callers hold one lock for the channel around every
\* GetOrCreateRepoTag call and the remote has applied every update sent, the
\* catalog (which starts without duplicate names) never holds two tags of
\* one name, at most one update has been sent per repository name, and every
\* successful call for a name returns the id the first successful call for
\* that name returned.
C19_SerializedCallsAgree ==
    (locking = "channel" /\ ~dropped) =>
        /\ \A n \in Names : Count(catalog, n) <= 1
        /\ \A n \in Names : issued[n] <= 1
        /\ \A p \in Procs :
              (Done(p, "GetOrCreateRepoTag") /\ ret[p].err = Nil) =>
                  ret[p].id = healed[arg[p]]

\* Under the channel lock, the call that created the tag of repoB and a later
\* call for repoB have both returned its id; one update was sent for repoB.
C19_Witness ==
    /\ locking = "channel" /\ ~dropped
    /\ Done("p1", "GetOrCreateRepoTag") /\ Done("p2", "GetOrCreateRepoTag")
    /\ arg["p1"] = "repoB" /\ arg["p2"] = "repoB"
    /\ Methods("p1") = <<"GET", "PATCH">>
    /\ Methods("p2") = <<"GET">>
    /\ ret["p1"] = Return2(healed["repoB"], Nil)
    /\ ret["p2"] = ret["p1"]
    /\ ret["p1"].id # ""
    /\ issued["repoB"] = 1
    /\ Count(catalog, "repoB") = 1

====
